---- MODULE Spec2Model ----
(***************************************************************************)
(* State-machine model of the App component of frontend/src/App.js: the    *)
(* React state, the passive effects of mount, the event handlers, the      *)
(* object-URL store of the document, window.localStorage and the denoise   *)
(* requests in flight.                                                     *)
(*                                                                         *)
(* Numbers (strength) are kept in hundredths: 50 stands for 0.5.           *)
(* An object URL is its index in urlStore; 0 stands for null.              *)
(***************************************************************************)
EXTENDS Integers, Sequences, FiniteSets, TLC

(***************************************************************************)
(* Bounds of the model.                                                    *)
(***************************************************************************)
MaxUrls == 3
MaxInflight == 2

(***************************************************************************)
(* Program constants.                                                      *)
(***************************************************************************)
STORAGE_KEY == "image-denoiser-settings-v1"
DefaultMethod == [t |-> "str", s |-> "cdae", n |-> 0]
DefaultStrength == 50
SliderMin == 0
SliderMax == 100
SliderStep == 5
MethodOptions == {"cdae", "mean", "median", "wavelet"}

NoFile == "<null>"
Files == {"a.png", "b.png"}
NullUrl == 0

(***************************************************************************)
(* Number <-> string conversions.                                          *)
(***************************************************************************)
\* Number.prototype.toString for a number given in hundredths.
NumToString(h) ==
    LET a == IF h < 0 THEN 0 - h ELSE h
        r == a % 100
        frac == IF r = 0 THEN ""
                ELSE IF r % 10 = 0 THEN "." \o ToString(r \div 10)
                ELSE "." \o (IF r < 10 THEN "0" ELSE "") \o ToString(r)
    IN  (IF h < 0 THEN "-" ELSE "") \o ToString(a \div 100) \o frac

Digits == {"0", "1", "2", "3", "4", "5", "6", "7", "8", "9"}

DigitVal(c) ==
    CASE c = "0" -> 0 [] c = "1" -> 1 [] c = "2" -> 2 [] c = "3" -> 3
      [] c = "4" -> 4 [] c = "5" -> 5 [] c = "6" -> 6 [] c = "7" -> 7
      [] c = "8" -> 8 [] c = "9" -> 9

CharAt(s, i) == SubSeq(s, i, i)

\* Position of the first "." of s, or Len(s) + 1 when there is none.
DotPos(s) ==
    IF \E i \in 1..Len(s) : CharAt(s, i) = "."
    THEN CHOOSE i \in 1..Len(s) :
            CharAt(s, i) = "." /\ \A j \in 1..(i - 1) : CharAt(s, j) # "."
    ELSE Len(s) + 1

RECURSIVE DigitsVal(_, _, _)
\* Value of the digit string s[i..j] read as a base-10 natural.
DigitsVal(s, i, j) ==
    IF j < i THEN 0
    ELSE 10 * DigitsVal(s, i, j - 1) + DigitVal(CharAt(s, j))

\* s is an unsigned decimal literal: digits, optionally "." and 1-2 digits.
IsDecimalString(s) ==
    LET d == DotPos(s)
    IN  /\ d > 1
        /\ \A i \in 1..(d - 1) : CharAt(s, i) \in Digits
        /\ d <= Len(s) => /\ Len(s) - d \in 1..2
                          /\ \A i \in (d + 1)..Len(s) : CharAt(s, i) \in Digits

\* parseFloat on an optionally signed decimal literal; result in hundredths.
ParseFloat(s) ==
    LET neg == Len(s) > 0 /\ CharAt(s, 1) = "-"
        u == IF neg THEN SubSeq(s, 2, Len(s)) ELSE s
        d == DotPos(u)
        ip == DigitsVal(u, 1, d - 1)
        nf == IF d > Len(u) THEN 0 ELSE Len(u) - d
        fp == IF nf = 0 THEN 0
              ELSE IF nf = 1 THEN 10 * DigitsVal(u, d + 1, Len(u))
              ELSE DigitsVal(u, d + 1, Len(u))
        v == 100 * ip + fp
    IN  IF neg THEN 0 - v ELSE v

\* The values the range input can report: min, min+step, ..., max.
SliderValues == {v \in SliderMin..SliderMax : (v - SliderMin) % SliderStep = 0}

(***************************************************************************)
(* JSON values and the text kept in localStorage.                          *)
(***************************************************************************)
JAbsent == [t |-> "absent", s |-> "", n |-> 0]
JNull == [t |-> "null", s |-> "", n |-> 0]
JStr(x) == [t |-> "str", s |-> x, n |-> 0]
JNum(x) == [t |-> "num", s |-> "", n |-> x]
JBool(b) == [t |-> "bool", s |-> IF b THEN "true" ELSE "false", n |-> 0]
\* A plain object.
JObj == [t |-> "obj", s |-> "", n |-> 0]

\* JavaScript truthiness of a property value read from a parsed object.
Truthy(v) == \/ v.t = "str" /\ v.s # ""
             \/ v.t = "num" /\ v.n # 0
             \/ v.t = "bool" /\ v.s = "true"
             \/ v.t = "obj"

\* The conversion of a value to a string (String(v), a template literal,
\* FormData.append, new Error(v).message).
JsString(v) ==
    CASE v.t = "str" -> v.s
      [] v.t = "num" -> NumToString(v.n)
      [] v.t = "bool" -> v.s
      [] v.t = "obj" -> "[object Object]"
      [] v.t = "null" -> "null"
      [] v.t = "absent" -> "undefined"

\* A stored item: kind "none" is getItem returning null, "empty" the empty
\* string, "invalid" text that JSON.parse rejects, "null" the JSON text
\* null, "scalar" a JSON number/string/boolean, "object" a JSON object.
Item(k, m, s) == [kind |-> k, method |-> m, strength |-> s]
NoItem == Item("none", JAbsent, JAbsent)

\* JSON.stringify({method, strength}), method any value JSON.parse gave
\* or a string, strength a number.
JSONstringify(m, s) == Item("object", m, JNum(s))

\* The items an earlier session of this program can have left behind.
SessionItems ==
    {JSONstringify(JStr(m), s) : m \in MethodOptions, s \in SliderValues}

\* Other contents of the storage slot.
ForeignItems ==
    {NoItem, Item("empty", JAbsent, JAbsent), Item("invalid", JAbsent, JAbsent),
     Item("null", JAbsent, JAbsent), Item("scalar", JAbsent, JAbsent)}
    \cup {Item("object", m, s) :
            m \in {JAbsent, JNull, JStr(""), JStr("median"), JStr("bogus"),
                   JNum(500), JNum(0), JBool(TRUE), JObj},
            s \in {JAbsent, JStr("0.3"), JNull, JNum(35), JNum(500), JNum(-100)}}

\* What the storage slot may hold when the page is opened.
InitialItems ==
    ForeignItems
    \cup SessionItems

\* The few of them the full model starts from, and the inputs it gives
\* the select and the range input.
StartItems == {NoItem, Item("object", JStr("bogus"), JNum(500))}
MethodPicks == {"cdae", "mean"}
SliderPicks == {"0.5", "0.05"}

(***************************************************************************)
(* State.                                                                  *)
(***************************************************************************)
VARIABLES
    phase,               \* "mounting" | "mounted" | "unmounted"
    selectedFile,        \* useState(null)
    originalPreviewUrl,  \* useState(null)
    denoisedPreviewUrl,  \* useState(null)
    method,              \* useState("cdae"): a string, or what was loaded
    strength,            \* useState(0.5)
    isProcessing,        \* useState(false)
    statusMessage,       \* useState("")
    localStorage,        \* window.localStorage: key -> item
    effects,             \* passive effects scheduled by the last commit
    updates,             \* state updates queued by the load effect
    raw,                 \* the item the load effect read (its local raw)
    cleanupClosure,      \* the URLs captured by the unmount cleanup
    crashed,             \* an error escaped an effect
    urlStore,            \* object URLs created so far, by index
    inflight,            \* denoise requests sent and not yet handled
    inputFile,           \* the file held by the <input type="file">
    lastDownload         \* href of the last anchor clicked by handleDownload

state == <<selectedFile, originalPreviewUrl, denoisedPreviewUrl, method,
           strength, isProcessing, statusMessage>>

vars == <<phase, selectedFile, originalPreviewUrl, denoisedPreviewUrl, method,
          strength, isProcessing, statusMessage, localStorage, effects,
          updates, raw, cleanupClosure, crashed, urlStore, inflight,
          inputFile, lastDownload>>

NoUpdates == [hasMethod |-> FALSE, method |-> JAbsent, hasStrength |-> FALSE, strength |-> 0]
NoClosure == [set |-> FALSE, original |-> NullUrl, denoised |-> NullUrl]

\* The first render: every useState at its initial value, the three
\* effects of the component scheduled in declaration order, the storage
\* slot holding one of items.
InitWith(items) ==
    /\ phase = "mounting"
    /\ selectedFile = NoFile
    /\ originalPreviewUrl = NullUrl
    /\ denoisedPreviewUrl = NullUrl
    /\ method = DefaultMethod
    /\ strength = DefaultStrength
    /\ isProcessing = FALSE
    /\ statusMessage = ""
    /\ localStorage \in [{STORAGE_KEY} -> items]
    /\ effects = <<"load", "save", "cleanup">>
    /\ updates = NoUpdates
    /\ raw = NoItem
    /\ cleanupClosure = NoClosure
    /\ crashed = FALSE
    /\ urlStore = <<>>
    /\ inflight = <<>>
    /\ inputFile = NoFile
    /\ lastDownload = NullUrl

Init == InitWith(StartItems)

(***************************************************************************)
(* Object URLs.                                                            *)
(***************************************************************************)
\* URL.createObjectURL: the store after creating a URL for content c.
CreateObjectURL(store, src, file) ==
    Append(store, [src |-> src, file |-> file, revoked |-> FALSE])

\* URL.revokeObjectURL(u) guarded by `if (u)`.
RevokeIfSet(store, u) ==
    IF u # NullUrl /\ u \in DOMAIN store
    THEN [store EXCEPT ![u].revoked = TRUE]
    ELSE store

(***************************************************************************)
(* Mount: the passive effects, in declaration order, then the re-render    *)
(* their state updates ask for.  phase is "mounting" until all of them     *)
(* have been flushed.                                                      *)
(***************************************************************************)
Alive == phase \in {"mounting", "mounted"} /\ ~crashed
Idle == phase = "mounted" /\ effects = <<>> /\ ~crashed

\* The phase once the effects `rest` and the updates `upd` are what is left.
PhaseAfter(rest, upd) ==
    IF rest = <<>> /\ upd = NoUpdates THEN "mounted" ELSE phase

\* Body of the try block of the load effect on the item r: the updates it
\* queues and whether it threw.
LoadSettings(r) ==
    IF r.kind \in {"none", "empty"} THEN [threw |-> FALSE, upd |-> NoUpdates]
    ELSE IF r.kind \in {"invalid", "null"} THEN [threw |-> TRUE, upd |-> NoUpdates]
    ELSE [threw |-> FALSE,
          upd |-> [hasMethod |-> Truthy(r.method),
                   method |-> IF Truthy(r.method) THEN r.method ELSE JAbsent,
                   hasStrength |-> r.strength.t = "num",
                   strength |-> IF r.strength.t = "num" THEN r.strength.n ELSE 0]]

\* Whether an error thrown in the try block leaves the load effect: the
\* catch clause swallows it.
LoadEscapes(threw) == FALSE

\* useEffect(() => {...}, []): load settings from localStorage on mount.
LoadEffect ==
    /\ Alive
    /\ effects # <<>> /\ Head(effects) = "load"
    /\ LET r == localStorage[STORAGE_KEY]
           res == LoadSettings(r)
       IN  /\ raw' = r
           /\ updates' = res.upd
           /\ crashed' = LoadEscapes(res.threw)
           /\ phase' = PhaseAfter(Tail(effects), res.upd)
    /\ effects' = Tail(effects)
    /\ UNCHANGED <<state, localStorage, cleanupClosure, urlStore,
                   inflight, inputFile, lastDownload>>

\* What the save effect stores under STORAGE_KEY.
SavedItem == JSONstringify(method, strength)

\* useEffect(() => {...}, [method, strength]): save settings.
SaveEffect ==
    /\ Alive
    /\ effects # <<>> /\ Head(effects) = "save"
    /\ localStorage' = [localStorage EXCEPT ![STORAGE_KEY] = SavedItem]
    /\ effects' = Tail(effects)
    /\ phase' = PhaseAfter(Tail(effects), updates)
    /\ UNCHANGED <<state, updates, raw, cleanupClosure, crashed, urlStore,
                   inflight, inputFile, lastDownload>>

\* The values the cleanup function closes over: those of the render whose
\* effect created it.
CapturedUrls ==
    [set |-> TRUE, original |-> originalPreviewUrl, denoised |-> denoisedPreviewUrl]

\* useEffect(() => { return () => {...} }, []): registers the cleanup.
CleanupEffect ==
    /\ Alive
    /\ effects # <<>> /\ Head(effects) = "cleanup"
    /\ cleanupClosure' = CapturedUrls
    /\ effects' = Tail(effects)
    /\ phase' = PhaseAfter(Tail(effects), updates)
    /\ UNCHANGED <<state, localStorage, updates, raw, crashed, urlStore,
                   inflight, inputFile, lastDownload>>

\* (mutant) the save effect with [method] as its dependencies.
EffectsForMethodOnly(m, s) == IF m # method THEN <<"save">> ELSE <<>>

\* (mutant) the save effect with [] as its dependencies.
EffectsForMountOnly(m, s) == <<>>

\* The effects a commit schedules when it renders method m and strength s:
\* the save effect, when one of its dependencies changed.
EffectsFor(m, s) == IF m # method \/ s # strength THEN <<"save">> ELSE <<>>

\* The render that applies setMethod / setStrength queued by the load effect.
Rerender ==
    /\ Alive
    /\ effects = <<>> /\ updates # NoUpdates
    /\ LET m == IF updates.hasMethod THEN updates.method ELSE method
           s == IF updates.hasStrength THEN updates.strength ELSE strength
       IN  /\ method' = m
           /\ strength' = s
           /\ effects' = EffectsFor(m, s)
           /\ phase' = PhaseAfter(EffectsFor(m, s), NoUpdates)
    /\ updates' = NoUpdates
    /\ UNCHANGED <<selectedFile, originalPreviewUrl, denoisedPreviewUrl,
                   isProcessing, statusMessage, localStorage, raw,
                   cleanupClosure, crashed, urlStore, inflight, inputFile,
                   lastDownload>>

(***************************************************************************)
(* Event handlers.  An event is handled once the effects of the previous   *)
(* commit have been flushed; the handler, the re-render and the scheduling *)
(* of the effects of that render are one step.                             *)
(***************************************************************************)
\* The files a change event of the file input can carry: the input fires
\* it when its selection changes, with no file when a selection is cleared.
ChangeFiles == (Files \cup {NoFile}) \ {inputFile}

\* Room in the URL store for one more URL besides those the requests in
\* flight may still create.
UrlRoom == Len(urlStore) + Len(inflight) < MaxUrls

\* handleFileChange.
handleFileChange(file) ==
    /\ Idle
    /\ file \in ChangeFiles
    /\ inputFile' = file
    /\ IF file = NoFile
       THEN /\ selectedFile' = NoFile
            /\ originalPreviewUrl' = NullUrl
            /\ UNCHANGED <<denoisedPreviewUrl, statusMessage, urlStore>>
       ELSE /\ UrlRoom
            /\ selectedFile' = file
            /\ statusMessage' = ""
            /\ LET s1 == RevokeIfSet(urlStore, originalPreviewUrl)
                   s2 == CreateObjectURL(s1, "file", file)
                   s3 == RevokeIfSet(s2, denoisedPreviewUrl)
               IN  /\ originalPreviewUrl' = Len(s2)
                   /\ urlStore' = s3
            /\ denoisedPreviewUrl' = NullUrl
    /\ UNCHANGED <<phase, method, strength, isProcessing, localStorage,
                   effects, updates, raw, cleanupClosure, crashed, inflight,
                   lastDownload>>

\* handleMethodChange: the select reports one of its options, other than
\* the one shown.
handleMethodChange(value) ==
    /\ Idle
    /\ value \in MethodOptions
    /\ JStr(value) # method
    /\ method' = JStr(value)
    /\ effects' = EffectsFor(JStr(value), strength)
    /\ UNCHANGED <<phase, selectedFile, originalPreviewUrl, denoisedPreviewUrl,
                   strength, isProcessing, statusMessage, localStorage,
                   updates, raw, cleanupClosure, crashed, urlStore, inflight,
                   inputFile, lastDownload>>

\* The strings the range input reports as event.target.value.
SliderStrings == {NumToString(v) : v \in SliderValues}

\* handleStrengthChange: the range input reports a new position.
handleStrengthChange(value) ==
    /\ Idle
    /\ value \in SliderStrings
    /\ ParseFloat(value) # strength
    /\ strength' = ParseFloat(value)
    /\ effects' = EffectsFor(method, ParseFloat(value))
    /\ UNCHANGED <<phase, selectedFile, originalPreviewUrl, denoisedPreviewUrl,
                   method, isProcessing, statusMessage, localStorage,
                   updates, raw, cleanupClosure, crashed, urlStore, inflight,
                   inputFile, lastDownload>>

(***************************************************************************)
(* Denoise: the request and its response.                                  *)
(***************************************************************************)
ErrorStatuses == {500}

\* What fetch can settle with: a rejection, a 2xx response whose body is
\* read as a blob (or breaks off while read), a non-2xx response whose
\* body is JSON with or without a truthy error property, or not JSON.
Responses ==
    {[kind |-> "rejected", status |-> 0, body |-> "", error |-> JAbsent,
      message |-> "Failed to fetch"]}
    \cup {[kind |-> "response", status |-> 200, body |-> b, error |-> JAbsent,
           message |-> IF b = "broken" THEN "network error" ELSE ""] :
            b \in {"blob", "broken"}}
    \cup {[kind |-> "response", status |-> st, body |-> "json", error |-> e,
           message |-> ""] :
            st \in ErrorStatuses,
            e \in {JAbsent, JStr(""), JStr("Unsupported method"), JNum(700)}}
    \cup {[kind |-> "response", status |-> st, body |-> "text", error |-> JAbsent,
           message |-> ""] : st \in ErrorStatuses}

\* response.ok
ResponseOk(resp) == resp.status \in 200..299

\* (mutant) the button without its disabled attribute.
DenoiseNeverDisabled == FALSE

\* The button is rendered with disabled={isProcessing}.
DenoiseDisabled == isProcessing

\* (mutant) handleDenoise without its check of selectedFile.
NoFileUnchecked == FALSE

\* if (!selectedFile)
NoFileSelected == selectedFile = NoFile

\* The FormData of the request.
FormData == ("file" :> selectedFile) @@ ("method" :> JsString(method))
            @@ ("strength" :> NumToString(strength))

\* handleDenoise up to its first await.
handleDenoise ==
    /\ Idle
    /\ ~DenoiseDisabled
    /\ IF NoFileSelected
       THEN /\ statusMessage' = "Please upload an image first."
            /\ UNCHANGED <<isProcessing, denoisedPreviewUrl, urlStore, inflight>>
       ELSE /\ Len(inflight) < MaxInflight
            /\ UrlRoom
            /\ isProcessing' = TRUE
            /\ statusMessage' = "Processing..."
            /\ urlStore' = RevokeIfSet(urlStore, denoisedPreviewUrl)
            /\ denoisedPreviewUrl' = NullUrl
            /\ inflight' = Append(inflight, [form |-> FormData,
                                             stage |-> "fetch",
                                             status |-> 0])
    /\ UNCHANGED <<phase, selectedFile, originalPreviewUrl, method, strength,
                   localStorage, effects, updates, raw, cleanupClosure,
                   crashed, inputFile, lastDownload>>

\* The message of the error thrown for a non-2xx response:
\* new Error(errorMsg).message.
ServerErrorMsg(resp) ==
    IF resp.body = "json" /\ Truthy(resp.error)
    THEN JsString(resp.error)
    ELSE "Server error: " \o ToString(resp.status)

\* What the try block of handleDenoise throws on resp, if anything.
Thrown(resp) ==
    IF resp.kind = "rejected" THEN [threw |-> TRUE, message |-> resp.message]
    ELSE IF ~ResponseOk(resp) THEN [threw |-> TRUE, message |-> ServerErrorMsg(resp)]
    ELSE IF resp.body = "broken" THEN [threw |-> TRUE, message |-> resp.message]
    ELSE [threw |-> FALSE, message |-> ""]

\* (mutant) the catch clause showing the bare message.
CatchStatusBare(message) == message

\* The status the catch clause sets.
CatchStatus(message) == "Error: " \o message

\* (mutant) setIsProcessing(false) at the end of the try block instead of
\* in a finally clause.
AfterNoFinally(threw) == threw

\* isProcessing after the handler has left its try statement; threw tells
\* whether it left through the catch clause.
AfterFinally(threw) == FALSE

Remove(seq, i) == SubSeq(seq, 1, i - 1) \o SubSeq(seq, i + 1, Len(seq))

\* The rest of handleDenoise for request i once the outcome resp of its
\* awaits is known: the end of the try block or the catch clause, then
\* the finally clause.  The setters of an unmounted component do nothing.
finishDenoise(i, resp) ==
    /\ LET req == inflight[i]
           out == Thrown(resp)
           store == IF out.threw THEN urlStore
                    ELSE CreateObjectURL(urlStore, "blob", req.form["file"])
       IN  /\ urlStore' = store
           /\ IF phase = "unmounted"
              THEN UNCHANGED <<denoisedPreviewUrl, statusMessage, isProcessing>>
              ELSE /\ denoisedPreviewUrl' =
                        IF out.threw THEN denoisedPreviewUrl ELSE Len(store)
                   /\ statusMessage' =
                        IF out.threw THEN CatchStatus(out.message)
                        ELSE "Denoising completed."
                   /\ isProcessing' = AfterFinally(out.threw)
    /\ inflight' = Remove(inflight, i)
    /\ UNCHANGED <<phase, selectedFile, originalPreviewUrl, method, strength,
                   localStorage, effects, updates, raw, cleanupClosure,
                   crashed, inputFile, lastDownload>>

\* await fetch(...) of request i rejects: the handler goes to its catch
\* clause.
fetchRejects(i, resp) ==
    /\ i \in DOMAIN inflight
    /\ inflight[i].stage = "fetch"
    /\ resp \in Responses /\ resp.kind = "rejected"
    /\ finishDenoise(i, resp)

\* The statuses fetch can resolve with.
Statuses == {resp.status : resp \in {r \in Responses : r.kind = "response"}}

\* await fetch(...) of request i resolves with a response of that status:
\* the handler tests response.ok and waits again, for response.blob() or
\* for response.json().
fetchResolves(i, status) ==
    /\ i \in DOMAIN inflight
    /\ inflight[i].stage = "fetch"
    /\ status \in Statuses
    /\ inflight' = [inflight EXCEPT ![i].stage = "body", ![i].status = status]
    /\ UNCHANGED <<phase, state, localStorage, effects, updates, raw,
                   cleanupClosure, crashed, urlStore, inputFile, lastDownload>>

\* The reading of the body of request i ends, resp being the response
\* with the body as read: the handler resumes after its second await and
\* runs to its end.
resumeDenoise(i, resp) ==
    /\ i \in DOMAIN inflight
    /\ inflight[i].stage = "body"
    /\ resp \in Responses /\ resp.kind = "response"
    /\ resp.status = inflight[i].status
    /\ finishDenoise(i, resp)

\* handleDownload: the button is rendered only with a denoised preview.
handleDownload ==
    /\ Idle
    /\ denoisedPreviewUrl # NullUrl
    /\ lastDownload' = denoisedPreviewUrl
    /\ UNCHANGED <<phase, state, localStorage, effects, updates, raw,
                   cleanupClosure, crashed, urlStore, inflight, inputFile>>

\* (mutant) handleReset that also ends the processing state and leaves
\* the denoised URL unrevoked.
handleResetAll ==
    /\ Idle
    /\ urlStore' = RevokeIfSet(urlStore, originalPreviewUrl)
    /\ selectedFile' = NoFile
    /\ originalPreviewUrl' = NullUrl
    /\ denoisedPreviewUrl' = NullUrl
    /\ statusMessage' = ""
    /\ isProcessing' = FALSE
    /\ UNCHANGED <<phase, method, strength, localStorage,
                   effects, updates, raw, cleanupClosure, crashed, inflight,
                   inputFile, lastDownload>>

\* handleReset.
handleReset ==
    /\ Idle
    /\ urlStore' = RevokeIfSet(RevokeIfSet(urlStore, originalPreviewUrl),
                               denoisedPreviewUrl)
    /\ selectedFile' = NoFile
    /\ originalPreviewUrl' = NullUrl
    /\ denoisedPreviewUrl' = NullUrl
    /\ statusMessage' = ""
    /\ UNCHANGED <<phase, method, strength, isProcessing, localStorage,
                   effects, updates, raw, cleanupClosure, crashed, inflight,
                   inputFile, lastDownload>>

\* Unmount: React runs the cleanup registered by the cleanup effect.
unmount ==
    /\ Idle
    /\ phase' = "unmounted"
    /\ urlStore' = RevokeIfSet(RevokeIfSet(urlStore, cleanupClosure.original),
                               cleanupClosure.denoised)
    /\ UNCHANGED <<state, localStorage, effects, updates, raw, cleanupClosure,
                   crashed, inflight, inputFile, lastDownload>>

Next ==
    \/ LoadEffect
    \/ SaveEffect
    \/ CleanupEffect
    \/ Rerender
    \/ \E file \in Files \cup {NoFile} : handleFileChange(file)
    \/ \E value \in MethodPicks : handleMethodChange(value)
    \/ \E value \in SliderPicks : handleStrengthChange(value)
    \/ handleDenoise
    \/ \E i \in 1..MaxInflight, resp \in Responses : fetchRejects(i, resp)
    \/ \E i \in 1..MaxInflight, status \in Statuses : fetchResolves(i, status)
    \/ \E i \in 1..MaxInflight, resp \in Responses : resumeDenoise(i, resp)
    \/ handleDownload
    \/ handleReset
    \/ unmount

Spec == Init /\ [][Next]_vars

\* The fetch of a request in flight settles: it rejects or it resolves.
fetchSettles ==
    \/ \E i \in 1..MaxInflight, resp \in Responses : fetchRejects(i, resp)
    \/ \E i \in 1..MaxInflight, status \in Statuses : fetchResolves(i, status)

\* The reading of the body of a response ends.
bodySettles ==
    \E i \in 1..MaxInflight, resp \in Responses : resumeDenoise(i, resp)

\* Every fetch settles; the page is opened on settings an earlier session
\* left.
LiveItems == {JSONstringify(JStr("mean"), 5)}
LiveSpec == InitWith(LiveItems) /\ [][Next]_vars /\ WF_vars(fetchSettles)

\* The settings of the component alone: mount, the select, the range
\* input and unmount, from every content of the storage slot.
InitSettings == InitWith(InitialItems)

SettingsNext ==
    \/ LoadEffect
    \/ SaveEffect
    \/ CleanupEffect
    \/ Rerender
    \/ \E value \in MethodOptions : handleMethodChange(value)
    \/ \E value \in SliderStrings : handleStrengthChange(value)
    \/ unmount

SettingsSpec == InitSettings /\ [][SettingsNext]_vars

(***************************************************************************)
(* Properties.                                                             *)
(***************************************************************************)
StartsWith(s, prefix) ==
    Len(s) >= Len(prefix) /\ SubSeq(s, 1, Len(prefix)) = prefix

\* The step that flushes the last effect of the mount.
MountSettles == phase = "mounting" /\ phase' = "mounted"

\* C1: at most one denoise request is in flight at any time, and a
\* request is only ever sent while isProcessing is false.
C1_SingleRequestInFlight ==
    /\ Len(inflight) <= 1
    /\ phase # "unmounted" => (isProcessing <=> Len(inflight) = 1)

\* C1 witness: a request is in flight while another file is selected, so
\* that only the disabled button keeps a second request from being sent.
C1_Witness ==
    /\ Idle /\ isProcessing /\ Len(inflight) = 1
    /\ selectedFile # NoFile
    /\ selectedFile # inflight[1].form["file"]

\* C2 (as claimed): every request in flight carries exactly the fields
\* file, method and strength, with method one of the four options and
\* strength an unsigned decimal string whose value lies in [0,1].
C2_RequestWellFormed ==
    \A i \in DOMAIN inflight :
        LET form == inflight[i].form
        IN  /\ DOMAIN form = {"file", "method", "strength"}
            /\ form["file"] \in Files
            /\ form["method"] \in MethodOptions
            /\ IsDecimalString(form["strength"])
            /\ ParseFloat(form["strength"]) \in SliderMin..SliderMax

\* A non-2xx response whose body is JSON with a string error property.
ErrorBody(resp) ==
    /\ resp.kind = "response" /\ ~ResponseOk(resp)
    /\ resp.body = "json" /\ resp.error.t = "str"

\* C3 (as claimed): when the handler resumes on a non-2xx response with
\* the JSON body {"error": msg}, the status message becomes msg.
C3_MessageVerbatim ==
    [][\A i \in 1..MaxInflight, resp \in Responses :
        (resumeDenoise(i, resp) /\ phase # "unmounted" /\ ErrorBody(resp))
            => statusMessage' = resp.error.s]_vars

\* C3 (amended): on such a response the status message becomes "Error: "
\* followed by msg when msg is not empty, and "Error: Server error: "
\* followed by the status code when msg is empty.
C3_MessagePrefixed ==
    [][\A i \in 1..MaxInflight, resp \in Responses :
        (resumeDenoise(i, resp) /\ phase # "unmounted" /\ ErrorBody(resp))
            => statusMessage' =
                 IF resp.error.s # ""
                 THEN "Error: " \o resp.error.s
                 ELSE "Error: Server error: " \o ToString(resp.status)]_vars

\* C3 witness: the message of an error response is on display.
C3_Witness ==
    /\ phase = "mounted" /\ ~isProcessing /\ inflight = <<>>
    /\ statusMessage = "Error: Unsupported method"

\* C4: when the mount settles after the load effect read a blob
\* {method: m, strength: s} of an earlier session, the state has method m
\* and strength s and the storage slot holds that blob again.
C4_SettingsRestored ==
    [][(MountSettles /\ raw' \in SessionItems)
        => /\ method' = raw'.method
           /\ strength' = raw'.strength.n
           /\ localStorage'[STORAGE_KEY] = raw']_vars

\* C4 witness: a mount has settled on a stored blob other than the
\* defaults.
C4_Witness ==
    /\ Idle /\ raw \in SessionItems
    /\ raw.method # DefaultMethod /\ raw.strength.n # DefaultStrength
    /\ method = raw.method /\ strength = raw.strength.n
    /\ localStorage[STORAGE_KEY] = raw

\* C5: whenever no effect is pending, localStorage holds the one key
\* image-denoiser-settings-v1 and under it the blob with exactly the
\* current method and the current strength.
C5_StorageIsSettings ==
    Idle => /\ DOMAIN localStorage = {"image-denoiser-settings-v1"}
            /\ localStorage["image-denoiser-settings-v1"] =
                 [kind |-> "object", method |-> method,
                  strength |-> JNum(strength)]

\* C5 witness: settings changed by hand, a file selected, a result shown
\* and downloaded, and no effect pending.
C5_Witness ==
    /\ Idle
    /\ method # DefaultMethod /\ strength # DefaultStrength
    /\ raw.kind = "none"
    /\ selectedFile # NoFile /\ denoisedPreviewUrl # NullUrl
    /\ lastDownload = denoisedPreviewUrl
    /\ statusMessage = "Denoising completed."

\* C6 (as claimed): no request in flight carries the method or the
\* strength setting.
C6_SettingsNotSent ==
    \A i \in DOMAIN inflight :
        /\ "method" \notin DOMAIN inflight[i].form
        /\ "strength" \notin DOMAIN inflight[i].form

\* The item r is an object with a method / a strength of the right shape:
\* a non-empty string, a number.
SuppliesMethod(r) == r.kind = "object" /\ r.method.t = "str" /\ r.method.s # ""
SuppliesStrength(r) == r.kind = "object" /\ r.strength.t = "num"

\* C7 (as claimed): no error leaves the load effect, the mount is never stuck, and when
\* it settles every setting the stored item does not supply has its
\* default, with no file, no previews, isProcessing false and an empty
\* status.
C7_MountCompletes ==
    /\ [](~crashed)
    /\ [](phase = "mounting" => (effects # <<>> \/ updates # NoUpdates))
    /\ [][MountSettles
          => /\ ~SuppliesMethod(raw') => method' = DefaultMethod
             /\ ~SuppliesStrength(raw') => strength' = DefaultStrength
             /\ selectedFile' = NoFile
             /\ originalPreviewUrl' = NullUrl
             /\ denoisedPreviewUrl' = NullUrl
             /\ isProcessing' = FALSE
             /\ statusMessage' = ""]_vars

\* C8 (as claimed): once the component is unmounted, every object URL its
\* state held is revoked.
C8_UnmountRevokes ==
    phase = "unmounted" =>
        \A u \in {originalPreviewUrl, denoisedPreviewUrl} \ {NullUrl} :
            urlStore[u].revoked

\* A step in which handleDenoise runs to its end on the outcome resp.
Completes(i, resp) == fetchRejects(i, resp) \/ resumeDenoise(i, resp)

\* While the component is mounted, isProcessing is true only with a
\* request in flight; when the handler runs to its end, isProcessing
\* becomes false and either the response was read (2xx), the status is
\* "Denoising completed." and denoisedPreviewUrl is a URL created in this
\* step, or the status starts with "Error: " and denoisedPreviewUrl is
\* null.
ProcessingSafe ==
    /\ []((phase # "unmounted" /\ isProcessing) => inflight # <<>>)
    /\ [][\A i \in 1..MaxInflight, resp \in Responses :
            (Completes(i, resp) /\ phase # "unmounted")
            => /\ ~isProcessing'
               /\ IF resp.kind = "response" /\ ResponseOk(resp)
                     /\ resp.body = "blob"
                  THEN /\ statusMessage' = "Denoising completed."
                       /\ Len(urlStore') = Len(urlStore) + 1
                       /\ denoisedPreviewUrl' = Len(urlStore')
                       /\ ~urlStore'[denoisedPreviewUrl'].revoked
                  ELSE /\ StartsWith(statusMessage', "Error: ")
                       /\ denoisedPreviewUrl' = NullUrl]_vars

\* A request that is processing in the mounted component eventually is not.
ProcessingEnds ==
    (phase = "mounted" /\ isProcessing)
        ~> (phase = "unmounted" \/ ~isProcessing)

\* C9 (as claimed): ProcessingSafe, and, the fetch settling, a request
\* that is processing eventually is not.
C9_ProcessingEnds == ProcessingSafe /\ ProcessingEnds

\* C9 (amended): ProcessingSafe, and, the fetch settling and the reading
\* of the response body ending, a request that is processing eventually
\* is not.
C9_ProcessingEndsOnceBodyRead ==
    /\ ProcessingSafe
    /\ WF_vars(bodySettles) => ProcessingEnds

\* C9 witness: a request has finished with a result on display.
C9_Witness ==
    /\ phase = "mounted" /\ ~isProcessing /\ inflight = <<>>
    /\ statusMessage = "Denoising completed."
    /\ denoisedPreviewUrl # NullUrl
    /\ ~urlStore[denoisedPreviewUrl].revoked

\* C10: a click on Denoise with no file selected sets the status to
\* "Please upload an image first.", sends nothing and leaves isProcessing,
\* both preview URLs, method, strength and the stored settings unchanged.
C10_DenoiseWithoutFile ==
    [][(handleDenoise /\ selectedFile = NoFile)
        => /\ statusMessage' = "Please upload an image first."
           /\ inflight' = inflight
           /\ UNCHANGED <<isProcessing, originalPreviewUrl, denoisedPreviewUrl,
                          method, strength, localStorage>>]_vars

\* C10 witness: the prompt is on display and nothing is in flight.
C10_Witness ==
    /\ Idle /\ selectedFile = NoFile /\ inflight = <<>> /\ ~isProcessing
    /\ statusMessage = "Please upload an image first."

\* The object URLs the state holds.
HeldUrls == {originalPreviewUrl, denoisedPreviewUrl} \ {NullUrl}

\* C11: a click on Reset leaves selectedFile, originalPreviewUrl and
\* denoisedPreviewUrl null and the status empty, revokes the URLs that were
\* held and no other, and leaves method, strength, the stored settings,
\* isProcessing and the requests in flight unchanged.
C11_ResetFrame ==
    [][handleReset
        => /\ selectedFile' = NoFile
           /\ originalPreviewUrl' = NullUrl
           /\ denoisedPreviewUrl' = NullUrl
           /\ statusMessage' = ""
           /\ Len(urlStore') = Len(urlStore)
           /\ \A u \in DOMAIN urlStore :
                urlStore'[u].revoked <=> (urlStore[u].revoked \/ u \in HeldUrls)
           /\ UNCHANGED <<method, strength, localStorage, isProcessing,
                          inflight>>]_vars

\* C11 witness: Reset was clicked while a request is in flight: the upload
\* state is empty, the request is still processing.
C11_Witness ==
    /\ Idle /\ isProcessing /\ Len(inflight) = 1
    /\ selectedFile = NoFile /\ inputFile # NoFile
    /\ originalPreviewUrl = NullUrl /\ denoisedPreviewUrl = NullUrl
    /\ statusMessage = ""
    /\ \E u \in DOMAIN urlStore : urlStore[u].revoked

\* C12 (as claimed): while the component is mounted, a denoised preview on
\* display is the response to a request sent for the file that is
\* selected now.
C12_ResultMatchesFile ==
    (phase # "unmounted" /\ denoisedPreviewUrl # NullUrl)
        => /\ selectedFile # NoFile
           /\ urlStore[denoisedPreviewUrl].src = "blob"
           /\ urlStore[denoisedPreviewUrl].file = selectedFile

\* C13 (as claimed): while the component is mounted, every object URL
\* created and not revoked is the value of originalPreviewUrl or of
\* denoisedPreviewUrl.
C13_NoUrlLeak ==
    phase # "unmounted"
        => \A u \in DOMAIN urlStore : ~urlStore[u].revoked => u \in HeldUrls
====
